---- MODULE Spec2Model ----
(***************************************************************************)
(* Model of the update_file tool of filesystem-mcp-server: the diff parser *)
(* (parseDiff), the block applicator and the orchestrator (updateFileLogic)*)
(* together with the session state they resolve paths against             *)
(* (ServerState).                                                          *)
(* The MCP client module (connectMcpClient, disconnectMcpClient and the    *)
(* handlers of a client) is modelled beside it, under ClientSpec.           *)
(*                                                                         *)
(* Text is a sequence of tokens: an ordinary character is a one-character  *)
(* string, and each of the three diff markers is one token.  A path is a   *)
(* record [abs, segs]: whether it is absolute, and its segments.           *)
(***************************************************************************)
EXTENDS Integers, Sequences, FiniteSets, TLC

VARIABLES
    fs,                     \* the file system: Files -> [exists, content]
    defaultFilesystemPath,  \* ServerState.defaultFilesystemPath (NULL when unset)
    call,                   \* the update_file calls: Calls -> call record
    parser,                 \* one invocation of parseDiff on its own
    tool,                   \* the last call of a session tool other than update_file
    mcp                     \* the MCP client module: its cache, clients and calls in flight

vars == <<fs, defaultFilesystemPath, call, parser, tool, mcp>>

----------------------------------------------------------------------------
(* Bounds *)

MaxCalls == 2

Calls == 1..MaxCalls

----------------------------------------------------------------------------
(* Text *)

NL == "\n"
CR == "\r"
SEARCH_MARKER == "<<<<<<< SEARCH"
SEPARATOR_MARKER == "======="
REPLACE_MARKER == ">>>>>>> REPLACE"

Min(S) == CHOOSE x \in S : \A y \in S : x <= y
Max(S) == CHOOSE x \in S : \A y \in S : x >= y

\* text.substring(from0) / text.substring(from0, to0), 0-based, end exclusive
Substring(text, from0, to0) == SubSeq(text, from0 + 1, to0)

\* String.prototype.indexOf: the 0-based index of the first occurrence, -1 if none
\* String.prototype.lastIndexOf
LastIndexOf(text, s) ==
    LET hits == { i \in 0..(Len(text) - Len(s)) :
                      Substring(text, i, i + Len(s)) = s }
    IN  IF hits = {} THEN -1 ELSE CHOOSE x \in hits : \A y \in hits : x >= y

IndexOf(text, s) ==
    LET hits == { i \in 0..(Len(text) - Len(s)) :
                      Substring(text, i, i + Len(s)) = s }
    IN  IF hits = {} THEN -1 ELSE Min(hits)

----------------------------------------------------------------------------
(* Errors *)

NOT_FOUND == "NOT_FOUND"
VALIDATION_ERROR == "VALIDATION_ERROR"
INTERNAL_ERROR == "INTERNAL_ERROR"

NoErr == [isMcp |-> FALSE, code |-> "none", orig |-> "none"]
\* new McpError(code, message, {..., originalError})
McpError(code, originalError) == [isMcp |-> TRUE, code |-> code, orig |-> originalError]
\* an error that is not an McpError: a Node system error with its code, or a plain Error
PlainError(code) == [isMcp |-> FALSE, code |-> code, orig |-> "none"]

----------------------------------------------------------------------------
(* Paths *)

NULL == [abs |-> FALSE, segs |-> <<>>]
AbsPath(segs) == [abs |-> TRUE, segs |-> segs]
RelPath(segs) == [abs |-> FALSE, segs |-> segs]

\* a segment holding a character the sanitizer rejects
BAD_SEGMENT == "nul"

RECURSIVE NormalizeSegs(_, _, _)
NormalizeSegs(segs, acc, abs) ==
    IF segs = <<>> THEN acc
    ELSE LET s == Head(segs) IN
         IF s = ".."
         THEN IF acc # <<>> /\ acc[Len(acc)] # ".."
              THEN NormalizeSegs(Tail(segs), SubSeq(acc, 1, Len(acc) - 1), abs)
              ELSE IF abs
                   THEN NormalizeSegs(Tail(segs), acc, abs)
                   ELSE NormalizeSegs(Tail(segs), Append(acc, s), abs)
         ELSE NormalizeSegs(Tail(segs), Append(acc, s), abs)

\* path.normalize
PathNormalize(p) == [abs |-> p.abs, segs |-> NormalizeSegs(p.segs, <<>>, p.abs)]

\* path.isAbsolute
PathIsAbsolute(p) == p.abs

\* path.join(a, b): concatenates and normalizes
PathJoin(a, b) == PathNormalize([abs |-> a.abs, segs |-> a.segs \o b.segs])

\* sanitization.sanitizePath(p, {allowAbsolute: true, toPosix: true}): the
\* normalized path, or a thrown error.  `crash` is an unexpected fault inside it.
SanitizePath(p, crash) ==
    IF crash
    THEN [ok |-> FALSE, path |-> NULL, error |-> PlainError("crash")]
    ELSE IF \E i \in 1..Len(p.segs) : p.segs[i] = BAD_SEGMENT
    THEN [ok |-> FALSE, path |-> NULL, error |-> McpError(VALIDATION_ERROR, "none")]
    ELSE [ok |-> TRUE, path |-> PathNormalize(p), error |-> NoErr]

\* a resolvePath that joins a relative path with whatever the default holds
ResolvePathUnchecked(default, requestedPath, crash) ==
    LET absolutePath == IF PathIsAbsolute(requestedPath)
                        THEN requestedPath
                        ELSE PathJoin(default, requestedPath)
        s == SanitizePath(absolutePath, crash)
    IN  IF s.ok THEN s
        ELSE IF s.error.isMcp THEN s
        ELSE [ok |-> FALSE, path |-> NULL,
              error |-> McpError(INTERNAL_ERROR, s.error.code)]

\* ServerState.resolvePath: [ok, path, error]
ResolvePath(default, requestedPath, crash) ==
    IF ~PathIsAbsolute(requestedPath) /\ default = NULL
    THEN [ok |-> FALSE, path |-> NULL, error |-> McpError(VALIDATION_ERROR, "none")]
    ELSE LET absolutePath == IF PathIsAbsolute(requestedPath)
                             THEN requestedPath
                             ELSE PathJoin(default, requestedPath)
             s == SanitizePath(absolutePath, crash)
         IN  IF s.ok THEN s
             ELSE IF s.error.isMcp THEN s
             ELSE [ok |-> FALSE, path |-> NULL,
                   error |-> McpError(INTERNAL_ERROR, s.error.code)]

----------------------------------------------------------------------------
(* The diff parser: blockRegex and parseDiff *)

\* how many tokens `\r?\n` matches at (1-based) position j: 0 when it does not match
NewlineLen(t, j) ==
    IF j <= Len(t) /\ t[j] = NL THEN 1
    ELSE IF j + 1 <= Len(t) /\ t[j] = CR /\ t[j + 1] = NL THEN 2
    ELSE 0

TokenAt(t, j, tok) == j <= Len(t) /\ t[j] = tok

\* the positions d >= c where `\r?\n>>>>>>> REPLACE` matches
CloseStarts(t, c) ==
    { d \in c..Len(t) :
        /\ NewlineLen(t, d) > 0
        /\ TokenAt(t, d + NewlineLen(t, d), REPLACE_MARKER) }

\* where the second capture group starts when `\r?\n=======\r?\n` matches at b
AfterSeparator(t, b) == b + NewlineLen(t, b) + 1 + NewlineLen(t, b + NewlineLen(t, b) + 1)

\* the positions b >= a where `\r?\n=======\r?\n([\s\S]*?)\r?\n>>>>>>> REPLACE` matches
SeparatorStarts(t, a) ==
    { b \in a..Len(t) :
        /\ NewlineLen(t, b) > 0
        /\ TokenAt(t, b + NewlineLen(t, b), SEPARATOR_MARKER)
        /\ NewlineLen(t, b + NewlineLen(t, b) + 1) > 0
        /\ CloseStarts(t, AfterSeparator(t, b)) # {} }

\* blockRegex matches with its first token at position i
MatchAt(t, i) ==
    /\ TokenAt(t, i, SEARCH_MARKER)
    /\ NewlineLen(t, i + 1) > 0
    /\ SeparatorStarts(t, i + 1 + NewlineLen(t, i + 1)) # {}

\* the match at i were both groups greedy: each ends at the last position that
\* lets the rest of the pattern match
BlockMatchGreedy(t, i) ==
    LET a == i + 1 + NewlineLen(t, i + 1)
        b == Max(SeparatorStarts(t, a))
        c == AfterSeparator(t, b)
        d == Max(CloseStarts(t, c))
    IN  [search    |-> SubSeq(t, a, b - 1),
         replace   |-> SubSeq(t, c, d - 1),
         index     |-> i,
         lastIndex |-> d + NewlineLen(t, d) + 1]

\* the match at i were the line break before the separator left in the first group
BlockMatchKeepsLineBreak(t, i) ==
    LET a == i + 1 + NewlineLen(t, i + 1)
        b == Min(SeparatorStarts(t, a))
        c == AfterSeparator(t, b)
        d == Min(CloseStarts(t, c))
    IN  [search    |-> SubSeq(t, a, b + NewlineLen(t, b) - 1),
         replace   |-> SubSeq(t, c, d - 1),
         index     |-> i,
         lastIndex |-> d + NewlineLen(t, d) + 1]

\* the match at i: both groups are lazy, so each ends at the first position that
\* lets the rest of the pattern match
BlockMatch(t, i) ==
    LET a == i + 1 + NewlineLen(t, i + 1)
        b == Min(SeparatorStarts(t, a))
        c == AfterSeparator(t, b)
        d == Min(CloseStarts(t, c))
    IN  [search    |-> SubSeq(t, a, b - 1),
         replace   |-> SubSeq(t, c, d - 1),
         index     |-> i,
         lastIndex |-> d + NewlineLen(t, d) + 1]

\* blockRegex.exec from lastIndex, repeated until it returns null
RECURSIVE ParseFrom(_, _)
ParseFrom(t, lastIndex) ==
    LET starts == { i \in lastIndex..Len(t) : MatchAt(t, i) }
    IN  IF starts = {} THEN <<>>
        ELSE LET m == BlockMatch(t, Min(starts))
             IN  <<[search |-> m.search, replace |-> m.replace, applied |-> FALSE]>>
                     \o ParseFrom(t, m.lastIndex)

parseDiff(diffContent) == ParseFrom(diffContent, 1)

\* the successive results of blockRegex.exec, with where each match lies
RECURSIVE ExecFrom(_, _)
ExecFrom(t, lastIndex) ==
    LET starts == { i \in lastIndex..Len(t) : MatchAt(t, i) }
    IN  IF starts = {} THEN <<>>
        ELSE LET m == BlockMatch(t, Min(starts))
             IN  <<m>> \o ExecFrom(t, m.lastIndex)

\* the characters String.prototype.trim removes
Whitespace == { " ", NL, CR }

RECURSIVE TrimStart(_)
TrimStart(text) ==
    IF text # <<>> /\ Head(text) \in Whitespace THEN TrimStart(Tail(text)) ELSE text

RECURSIVE TrimEnd(_)
TrimEnd(text) ==
    IF text # <<>> /\ text[Len(text)] \in Whitespace
    THEN TrimEnd(SubSeq(text, 1, Len(text) - 1))
    ELSE text

\* String.prototype.trim
Trim(text) == TrimEnd(TrimStart(text))

\* a warning test that does not trim
ShouldWarnUntrimmed(blocks, diffContent) == Len(blocks) = 0 /\ diffContent # <<>>

\* the test guarding logger.warn in parseDiff
ShouldWarn(blocks, diffContent) == Len(blocks) = 0 /\ Trim(diffContent) # <<>>

----------------------------------------------------------------------------
(* The block applicator: the for loop of updateFileLogic *)

\* a found branch that forgets to mark the block as applied
BlockFoundUnmarked(st, k, index) ==
    LET block == st.diffBlocks[k]
        replaced == Substring(st.updatedContent, 0, index) \o block.replace
                        \o Substring(st.updatedContent, index + Len(block.search),
                                     Len(st.updatedContent))
    IN  [st EXCEPT !.updatedContent = replaced,
                   !.blocksApplied = @ + 1,
                   !.buffers = Append(@, replaced)]

\* the branch of the loop body taken when the search text is found at index
BlockFound(st, k, index) ==
    LET block == st.diffBlocks[k]
        replaced == Substring(st.updatedContent, 0, index) \o block.replace
                        \o Substring(st.updatedContent, index + Len(block.search),
                                     Len(st.updatedContent))
    IN  [st EXCEPT !.updatedContent = replaced,
                   !.diffBlocks[k].applied = TRUE,
                   !.blocksApplied = @ + 1,
                   !.buffers = Append(@, replaced)]

\* a not-found branch that forgets to count the block
BlockNotFoundUncounted(st) == [st EXCEPT !.buffers = Append(@, st.updatedContent)]

\* the branch of the loop body taken when the search text is not found
BlockNotFound(st) ==
    [st EXCEPT !.blocksFailed = @ + 1,
               !.buffers = Append(@, st.updatedContent)]

\* the loop body taking the blocks last to first
ApplyBlockReversed(st, k) ==
    LET j == Len(st.diffBlocks) + 1 - k
        index == IndexOf(st.updatedContent, st.diffBlocks[j].search)
    IN  IF index # -1 THEN BlockFound(st, j, index) ELSE BlockNotFound(st)

\* one iteration of the loop, on block k; buffers records updatedContent after it
ApplyBlock(st, k) ==
    LET index == IndexOf(st.updatedContent, st.diffBlocks[k].search)
    IN  IF index # -1 THEN BlockFound(st, k, index) ELSE BlockNotFound(st)

RECURSIVE ApplyFrom(_, _)
ApplyFrom(st, k) ==
    IF k > Len(st.diffBlocks) THEN st ELSE ApplyFrom(ApplyBlock(st, k), k + 1)

\* the whole loop, from the content read and the parsed blocks
ApplyBlocks(currentContent, diffBlocks) ==
    ApplyFrom([updatedContent |-> currentContent, diffBlocks |-> diffBlocks,
               blocksApplied |-> 0, blocksFailed |-> 0, buffers |-> <<>>], 1)

----------------------------------------------------------------------------
(* Inputs *)

\* a well-formed SEARCH/separator/REPLACE triple
Block(search, replace) ==
    <<SEARCH_MARKER, NL>> \o search \o <<NL, SEPARATOR_MARKER, NL>> \o replace
        \o <<NL, REPLACE_MARKER>>

\* [a -> b, b -> c]: the second block finds what the first one wrote
DiffChain == Block(<<"a">>, <<"b">>) \o <<NL>> \o Block(<<"b">>, <<"c">>)
\* [c -> a, aa -> b]
DiffMissThenHit == Block(<<"c">>, <<"a">>) \o Block(<<"a", "a">>, <<"b">>)
\* text without a block
DiffNoBlocks == <<"a", NL>>

\* the diff payloads the calls are given
Diffs ==
    { DiffChain, DiffMissThenHit, DiffNoBlocks }

\* the arguments of the tool calls: the diff, and replaceAll, an argument the
\* README lists and UpdateFileInputSchema does not have.  The call that carries
\* [a -> b, b -> c] asks for replaceAll: true.
Requests == { [diff |-> d, replaceAll |-> (d = DiffChain)] : d \in Diffs }

FilePath == AbsPath(<<"f">>)
NestedFilePath == AbsPath(<<"d", "f">>)
DirPath == AbsPath(<<"d">>)

\* the paths at which the file system can hold a file
Files == { FilePath, NestedFilePath }

\* config.fsBaseDirectory: FS_BASE_DIRECTORY is set to /d
fsBaseDirectory == DirPath

\* the paths the calls are given
RequestedPaths ==
    { AbsPath(<<"d", "..", "f">>), RelPath(<<"f">>), AbsPath(<<BAD_SEGMENT>>) }

\* the paths set_filesystem_default is given
DefaultPaths == { DirPath, RelPath(<<"d">>), AbsPath(<<BAD_SEGMENT>>) }

NoFile == [exists |-> FALSE, content |-> <<>>]
File(content) == [exists |-> TRUE, content |-> content]

\* a writeFile that appends to what the file holds
WriteFileAppend(files, path, content) ==
    [files EXCEPT ![path] = File(files[path].content \o content)]

\* what fs.readFile / fs.writeFile finds at a path
FileAt(files, path) == IF path \in DOMAIN files THEN files[path] ELSE NoFile

\* fs.writeFile(path, content, 'utf8'): creates the file or replaces all its content
WriteFile(files, path, content) == [files EXCEPT ![path] = File(content)]

\* the system errors a read or a write can meet whatever the file's state
ReadFaults == { "none", "EACCES" }
WriteFaults == { "none", "ENOENT" }

----------------------------------------------------------------------------
(* State *)

IdleCall ==
    [pc |-> "idle",
     requestedPath |-> NULL, diff |-> <<>>,      \* the input
     replaceAll |-> FALSE,                       \* the caller asked for replaceAll: true
     absolutePath |-> NULL,
     currentContent |-> <<>>,
     diffBlocks |-> <<>>,
     updatedContent |-> <<>>,
     blocksApplied |-> 0, blocksFailed |-> 0,
     buffers |-> <<>>,                           \* updatedContent after each block
     returned |-> FALSE,                         \* the promise resolved with `result`
     result |-> [updatedPath |-> NULL, blocksApplied |-> 0, blocksFailed |-> 0],
     error |-> NoErr,                            \* the promise rejected with `error`
     raisedAt |-> "none",                        \* the step that threw
     ioError |-> NoErr,                          \* what fs.readFile / fs.writeFile rejected with
     thrown |-> NoErr,                           \* what was thrown before the outer catch
     steps |-> <<>>,                             \* the steps of the call, in order
     written |-> <<>>,                           \* the contents fs.writeFile stored
     created |-> FALSE]                          \* fs.writeFile found no file to overwrite

\* the files the server starts with
InitialFiles == [p \in Files |-> IF p = FilePath THEN File(<<"a", "a">>)
                                                 ELSE File(<<"a">>)]

\* parseDiff before it is invoked on diffContent, assembled from `pieces`
IdleParser ==
    [pc |-> "idle",
     pieces |-> <<>>,           \* what the input was assembled from
     diffContent |-> <<>>,
     blocks |-> <<>>,           \* what parseDiff returned
     matches |-> <<>>,          \* where each block was matched
     warned |-> FALSE,          \* logger.warn was called
     error |-> NoErr]           \* what parseDiff threw

\* no session tool was called yet
NoTool ==
    [name |-> "none", path |-> NULL, default |-> NULL, resolved |-> NULL,
     error |-> NoErr]

\* the bounds of the client module: calls of connectMcpClient and of
\* disconnectMcpClient (those made by the event handlers included)
MaxConnects == 2
MaxDisconnects == 2

Connects == 1..MaxConnects
Disconnects == 1..MaxDisconnects

\* the server names of mcp-config.json, in the order of the cache keys
ServerNameSeq == <<"s1">>
ServerNames == { ServerNameSeq[i] : i \in 1..Len(ServerNameSeq) }

\* no Client instance (undefined); the instances are numbered from 1 as created
NoClient == 0

\* new Client(clientIdentity, {capabilities}) with its transport and the three
\* handlers, which hold serverName
NewClient(serverName) ==
    [serverName |-> serverName,
     connected |-> FALSE,       \* client.connect(transport) resolved
     closeCalls |-> 0]          \* how many times client.close() was called

\* a call of connectMcpClient before it is made
IdleConnect ==
    [pc |-> "idle",
     serverName |-> "",
     cached |-> NoClient,       \* what the cache held for serverName at line 36
     client |-> NoClient,       \* the instance this call created
     returned |-> NoClient,     \* what the call resolved to
     error |-> NoErr]           \* what the call rejected with

\* a call of disconnectMcpClient before it is made
IdleDisconnect ==
    [pc |-> "idle",
     serverName |-> "",
     by |-> NoClient,           \* the client whose handler made the call
     client |-> NoClient,       \* connectedClients.get(serverName) at line 132
     closeFailed |-> FALSE,     \* client.close() rejected
     rejected |-> FALSE,        \* the call itself rejected
     evicted |-> NoClient]      \* the instance line 147 removed from the cache

\* the module as loaded: an empty cache, no instance, no call
NoClients ==
    [connectedClients |-> [s \in ServerNames |-> NoClient],
     clients |-> <<>>,
     connect |-> [c \in Connects |-> IdleConnect],
     disconnect |-> [d \in Disconnects |-> IdleDisconnect]]

Init ==
    /\ fs = InitialFiles
    /\ defaultFilesystemPath = NULL
    /\ call = [c \in Calls |-> IdleCall]
    /\ parser = IdleParser
    /\ tool = NoTool
    /\ mcp = NoClients

----------------------------------------------------------------------------
(* updateFileLogic *)

\* a read catch that reports every read error as a missing file
ReadCatchAllNotFound(readError) == McpError(NOT_FOUND, readError.code)

\* the catch around fs.readFile
ReadCatch(readError) ==
    IF readError.code = "ENOENT"
    THEN McpError(NOT_FOUND, readError.code)
    ELSE readError

\* an outer catch that wraps whatever it catches
OuterCatchWrapAll(error) == McpError(INTERNAL_ERROR, error.code)

\* the catch around the whole body
OuterCatch(error) ==
    IF error.isMcp THEN error ELSE McpError(INTERNAL_ERROR, error.code)

\* the call rejects with `error`: step `at` threw `thrown`, on the I/O error `ioError`
Throw(rec, at, ioError, thrown, error) ==
    [rec EXCEPT !.pc = "done", !.raisedAt = at, !.ioError = ioError,
                !.thrown = thrown, !.error = error]

\* the call resolves
Return(rec) ==
    [rec EXCEPT !.pc = "done", !.returned = TRUE,
                !.result = [updatedPath |-> rec.absolutePath,
                            blocksApplied |-> rec.blocksApplied,
                            blocksFailed |-> rec.blocksFailed]]

\* up to the first await: the path is resolved and fs.readFile is issued.
\* Calls are numbered in the order they arrive.  Nothing looks at the diff
\* before parseDiff, so the diff the call was given is drawn in UpdateRead, and
\* a call that never gets to parseDiff is not told apart by its diff.
UpdateStart(c, requestedPath, crash) ==
    /\ call[c].pc = "idle"
    /\ \A b \in Calls : b < c => call[b].pc # "idle"
    /\ LET r == ResolvePath(defaultFilesystemPath, requestedPath, crash)
           rec == [call[c] EXCEPT !.requestedPath = requestedPath,
                                  !.steps = <<"resolve">>]
       IN  call' = [call EXCEPT ![c] =
                IF r.ok
                THEN [rec EXCEPT !.pc = "reading", !.absolutePath = r.path]
                ELSE Throw(rec, "resolve", NoErr, r.error, r.error)]
    /\ UNCHANGED <<fs, defaultFilesystemPath, parser, tool, mcp>>

\* an early-return test that never holds
NeverShortCircuit(diffBlocks) == FALSE

\* the early return when parseDiff found no block
NoBlocksParsed(diffBlocks) == Len(diffBlocks) = 0

\* a write test that also holds when nothing was applied
WriteAlways(blocksApplied) == blocksApplied >= 0

\* the test guarding fs.writeFile
ShouldWrite(blocksApplied) == blocksApplied > 0

\* fs.readFile completes; parsing and the loop run to the next await or to the end
AfterRead(rec, currentContent) ==
    LET diffBlocks == parseDiff(rec.diff)
        parsed == [rec EXCEPT !.currentContent = currentContent,
                              !.updatedContent = currentContent,
                              !.diffBlocks = diffBlocks,
                              !.steps = @ \o <<"read", "parse">>]
    IN  IF NoBlocksParsed(diffBlocks)
        THEN Return(parsed)
        ELSE LET st == ApplyBlocks(currentContent, diffBlocks)
                 applied == [parsed EXCEPT !.updatedContent = st.updatedContent,
                                           !.diffBlocks = st.diffBlocks,
                                           !.blocksApplied = st.blocksApplied,
                                           !.blocksFailed = st.blocksFailed,
                                           !.buffers = st.buffers,
                                           !.steps = @ \o <<"apply">>]
             IN  IF ShouldWrite(st.blocksApplied)
                 THEN [applied EXCEPT !.pc = "writing"]
                 ELSE Return(applied)

UpdateRead(c, request, fault) ==
    /\ call[c].pc = "reading"
    /\ LET file == FileAt(fs, call[c].absolutePath)
           rec == [call[c] EXCEPT !.diff = request.diff,
                                  !.replaceAll = request.replaceAll]
           readError == IF fault # "none" THEN PlainError(fault)
                        ELSE PlainError("ENOENT")
       IN  call' = [call EXCEPT ![c] =
                IF fault = "none" /\ file.exists
                THEN AfterRead(rec, file.content)
                ELSE Throw([call[c] EXCEPT !.steps = @ \o <<"read">>], "read", readError,
                           ReadCatch(readError), OuterCatch(ReadCatch(readError)))]
    /\ UNCHANGED <<fs, defaultFilesystemPath, parser, tool, mcp>>

\* a write that is refused when the file no longer holds what the call read
UpdateWriteIfUnchanged(c, fault) ==
    /\ call[c].pc = "writing"
    /\ LET rec == [call[c] EXCEPT !.steps = @ \o <<"write">>]
           after == WriteFile(fs, rec.absolutePath, rec.updatedContent)
           conflict == McpError(INTERNAL_ERROR, "conflict")
       IN  IF FileAt(fs, rec.absolutePath) # File(rec.currentContent)
           THEN /\ call' = [call EXCEPT ![c] =
                       Throw(rec, "write", NoErr, conflict, conflict)]
                /\ UNCHANGED fs
           ELSE IF fault = "none"
           THEN /\ fs' = after
                /\ call' = [call EXCEPT ![c] =
                       Return([rec EXCEPT
                                 !.written = Append(@, FileAt(after, rec.absolutePath).content),
                                 !.created = FALSE])]
           ELSE /\ call' = [call EXCEPT ![c] =
                       Throw(rec, "write", PlainError(fault), PlainError(fault),
                             OuterCatch(PlainError(fault)))]
                /\ UNCHANGED fs
    /\ UNCHANGED <<defaultFilesystemPath, parser, tool, mcp>>

\* a write that is issued a second time when the first one fails
UpdateWriteRetried(c, fault) ==
    /\ call[c].pc = "writing"
    /\ LET rec == [call[c] EXCEPT !.steps = @ \o <<"write">>]
           after == WriteFile(fs, rec.absolutePath, rec.updatedContent)
           first == \A i \in 1..Len(call[c].steps) : call[c].steps[i] # "write"
       IN  IF fault = "none"
           THEN /\ fs' = after
                /\ call' = [call EXCEPT ![c] =
                       Return([rec EXCEPT
                                 !.written = Append(@, FileAt(after, rec.absolutePath).content),
                                 !.created = ~FileAt(fs, rec.absolutePath).exists])]
           ELSE IF first
           THEN /\ call' = [call EXCEPT ![c] = rec]
                /\ UNCHANGED fs
           ELSE /\ call' = [call EXCEPT ![c] =
                       Throw(rec, "write", PlainError(fault), PlainError(fault),
                             OuterCatch(PlainError(fault)))]
                /\ UNCHANGED fs
    /\ UNCHANGED <<defaultFilesystemPath, parser, tool, mcp>>

\* a write of the blocks applied anew to what the file holds at the write
UpdateWriteOnFreshContent(c, fault) ==
    /\ call[c].pc = "writing"
    /\ LET rec == [call[c] EXCEPT !.steps = @ \o <<"write">>]
           fresh == ApplyBlocks(FileAt(fs, rec.absolutePath).content, rec.diffBlocks)
           after == WriteFile(fs, rec.absolutePath, fresh.updatedContent)
       IN  IF fault = "none"
           THEN /\ fs' = after
                /\ call' = [call EXCEPT ![c] =
                       Return([rec EXCEPT
                                 !.written = Append(@, FileAt(after, rec.absolutePath).content),
                                 !.created = ~FileAt(fs, rec.absolutePath).exists])]
           ELSE /\ call' = [call EXCEPT ![c] =
                       Throw(rec, "write", PlainError(fault), PlainError(fault),
                             OuterCatch(PlainError(fault)))]
                /\ UNCHANGED fs
    /\ UNCHANGED <<defaultFilesystemPath, parser, tool, mcp>>

\* a write that resolves the requested path anew, against the default of the
\* moment
UpdateWriteResolvedAgain(c, fault) ==
    /\ call[c].pc = "writing"
    /\ LET r == ResolvePath(defaultFilesystemPath, call[c].requestedPath, FALSE)
           rec == [call[c] EXCEPT !.steps = @ \o <<"write">>]
           moved == [rec EXCEPT !.absolutePath = r.path]
           after == WriteFile(fs, r.path, rec.updatedContent)
       IN  IF ~r.ok
           THEN /\ call' = [call EXCEPT ![c] = Throw(rec, "write", NoErr, r.error, r.error)]
                /\ UNCHANGED fs
           ELSE IF fault = "none"
           THEN /\ fs' = after
                /\ call' = [call EXCEPT ![c] =
                       Return([moved EXCEPT
                                 !.written = Append(@, FileAt(after, r.path).content),
                                 !.created = ~FileAt(fs, r.path).exists])]
           ELSE /\ call' = [call EXCEPT ![c] =
                       Throw(rec, "write", PlainError(fault), PlainError(fault),
                             OuterCatch(PlainError(fault)))]
                /\ UNCHANGED fs
    /\ UNCHANGED <<defaultFilesystemPath, parser, tool, mcp>>

\* fs.writeFile completes
UpdateWrite(c, fault) ==
    /\ call[c].pc = "writing"
    /\ LET rec == [call[c] EXCEPT !.steps = @ \o <<"write">>]
           after == WriteFile(fs, rec.absolutePath, rec.updatedContent)
       IN  IF fault = "none"
           THEN /\ fs' = after
                /\ call' = [call EXCEPT ![c] =
                       Return([rec EXCEPT
                                 !.written = Append(@, FileAt(after, rec.absolutePath).content),
                                 !.created = ~FileAt(fs, rec.absolutePath).exists])]
           ELSE /\ call' = [call EXCEPT ![c] =
                       Throw(rec, "write", PlainError(fault), PlainError(fault),
                             OuterCatch(PlainError(fault)))]
                /\ UNCHANGED fs
    /\ UNCHANGED <<defaultFilesystemPath, parser, tool, mcp>>

----------------------------------------------------------------------------
(* ServerState *)

\* what setDefaultFilesystemPath throws for newPath (NoErr: nothing)
SetDefaultError(newPath, crash) ==
    LET s == SanitizePath(newPath, crash)
    IN  IF ~PathIsAbsolute(newPath) THEN McpError(VALIDATION_ERROR, "none")
        ELSE IF s.ok THEN NoErr
        ELSE IF s.error.isMcp THEN s.error
        ELSE McpError(VALIDATION_ERROR, s.error.code)

\* a setter that keeps a default that is already set
NewDefaultKeepsFirst(default, newPath, crash) ==
    IF SetDefaultError(newPath, crash) = NoErr /\ default = NULL
    THEN SanitizePath(newPath, crash).path
    ELSE default

\* a setter that drops the stored default when it rejects the new one
NewDefaultClearedOnFailure(default, newPath, crash) ==
    IF SetDefaultError(newPath, crash) = NoErr
    THEN SanitizePath(newPath, crash).path
    ELSE NULL

\* this.defaultFilesystemPath after setDefaultFilesystemPath(newPath)
NewDefault(default, newPath, crash) ==
    IF SetDefaultError(newPath, crash) = NoErr
    THEN SanitizePath(newPath, crash).path
    ELSE default

SetDefaultFilesystemPath(newPath, crash) ==
    /\ defaultFilesystemPath' = NewDefault(defaultFilesystemPath, newPath, crash)
    /\ UNCHANGED <<fs, call, parser, tool, mcp>>

ClearDefaultFilesystemPath ==
    /\ defaultFilesystemPath' = NULL
    /\ UNCHANGED <<fs, call, parser, tool, mcp>>

----------------------------------------------------------------------------
(* The environment *)

\* the file at a path is removed behind the call's back: by another process, or
\* by the delete_file tool the README lists
DeleteFile(path) ==
    /\ fs[path].exists
    /\ fs' = [fs EXCEPT ![path] = NoFile]
    /\ UNCHANGED <<defaultFilesystemPath, call, parser, tool, mcp>>

----------------------------------------------------------------------------

Next ==
    \/ \E c \in Calls, p \in RequestedPaths, crash \in BOOLEAN :
           UpdateStart(c, p, crash)
    \/ \E c \in Calls, r \in Requests, fault \in ReadFaults : UpdateRead(c, r, fault)
    \/ \E c \in Calls, fault \in WriteFaults : UpdateWrite(c, fault)
    \/ \E p \in DefaultPaths, crash \in BOOLEAN : SetDefaultFilesystemPath(p, crash)
    \/ ClearDefaultFilesystemPath
    \/ \E p \in Files : DeleteFile(p)

Spec == Init /\ [][Next]_vars

----------------------------------------------------------------------------
(* The session: the tools that set and use the default path *)

\* the paths set_filesystem_default is given in a session
SessionDefaultPaths == DefaultPaths \cup { AbsPath(<<"d", "..", "e">>) }

\* sanitization.sanitizePath(p, {rootDir}): the path inside rootDir, or a thrown
\* error; a relative path is taken from rootDir, a path that leaves rootDir is
\* rejected.  With no rootDir the normalized path is returned as it is.
SanitizePathInRoot(p, rootDir, crash) ==
    LET full == IF PathIsAbsolute(p) THEN PathNormalize(p) ELSE PathJoin(rootDir, p)
    IN  IF crash
        THEN [ok |-> FALSE, path |-> NULL, error |-> PlainError("crash")]
        ELSE IF \E i \in 1..Len(p.segs) : p.segs[i] = BAD_SEGMENT
        THEN [ok |-> FALSE, path |-> NULL, error |-> McpError(VALIDATION_ERROR, "none")]
        ELSE IF rootDir = NULL
        THEN [ok |-> TRUE, path |-> PathNormalize(p), error |-> NoErr]
        ELSE IF /\ Len(full.segs) >= Len(rootDir.segs)
                /\ SubSeq(full.segs, 1, Len(rootDir.segs)) = rootDir.segs
        THEN [ok |-> TRUE, path |-> full, error |-> NoErr]
        ELSE [ok |-> FALSE, path |-> NULL, error |-> McpError(VALIDATION_ERROR, "none")]

\* the catch around fs.readFile in readFileLogic
ReadFileCatch(error) ==
    IF error.code = "ENOENT" THEN McpError(NOT_FOUND, error.code)
    ELSE IF error.code = "EISDIR" THEN McpError(VALIDATION_ERROR, error.code)
    ELSE McpError(INTERNAL_ERROR, error.code)

\* the set_filesystem_default tool: serverState.setDefaultFilesystemPath(newPath)
SetFilesystemDefault(newPath, crash) ==
    /\ defaultFilesystemPath' = NewDefault(defaultFilesystemPath, newPath, crash)
    /\ tool' = [name |-> "set_filesystem_default", path |-> newPath,
                default |-> defaultFilesystemPath,
                resolved |-> NULL,
                error |-> SetDefaultError(newPath, crash)]
    /\ UNCHANGED <<fs, call, parser, mcp>>

\* serverState.clearDefaultFilesystemPath()
ClearDefault ==
    /\ defaultFilesystemPath' = NULL
    /\ tool' = [NoTool EXCEPT !.name = "clear_default", !.default = defaultFilesystemPath]
    /\ UNCHANGED <<fs, call, parser, mcp>>

\* the read_file tool: readFileLogic.  The path is sanitized before the try
\* block, so what sanitizePath throws is what the caller gets.
ReadFile(requestedPath, crash, fault) ==
    LET s == SanitizePathInRoot(requestedPath, fsBaseDirectory, crash)
        file == FileAt(fs, s.path)
        readError == IF fault # "none" THEN PlainError(fault) ELSE PlainError("ENOENT")
    IN  /\ tool' = [name |-> "read_file", path |-> requestedPath,
                    default |-> defaultFilesystemPath,
                    resolved |-> s.path,
                    error |-> IF ~s.ok THEN s.error
                              ELSE IF fault = "none" /\ file.exists THEN NoErr
                              ELSE ReadFileCatch(readError)]
        /\ UNCHANGED <<fs, defaultFilesystemPath, call, parser, mcp>>

SessionNext ==
    \/ \E p \in SessionDefaultPaths, crash \in BOOLEAN : SetFilesystemDefault(p, crash)
    \/ ClearDefault
    \/ \E c \in Calls, p \in RequestedPaths, crash \in BOOLEAN :
           UpdateStart(c, p, crash)
    \/ \E p \in RequestedPaths, crash \in BOOLEAN, fault \in ReadFaults :
           ReadFile(p, crash, fault)

SessionSpec == Init /\ [][SessionNext]_vars

----------------------------------------------------------------------------
(* parseDiff on its own: the diff texts it is given *)

MaxPieces == 3

LF == <<NL>>
CRLF == <<CR, NL>>

\* a piece of diff text; search and replace are the texts it was written from
Piece(kind, text, search, replace) ==
    [kind |-> kind, text |-> text, search |-> search, replace |-> replace]

\* a block written as the input schema describes it, with line break nl:
\* <<<<<<< SEARCH nl [content to find] nl ======= nl [content to replace with] nl >>>>>>> REPLACE
BlockPiece(search, replace, nl) ==
    Piece("block",
          <<SEARCH_MARKER>> \o nl \o search \o nl \o <<SEPARATOR_MARKER>> \o nl
              \o replace \o nl \o <<REPLACE_MARKER>>,
          search, replace)

BlockPieces ==
    { BlockPiece(<<"a">>, <<"b">>, LF),
      BlockPiece(<<>>, <<"a">>, LF),
      BlockPiece(<<"a", NL, "b">>, <<>>, CRLF) }

\* whitespace between blocks
SpacePieces == { Piece("space", <<" ">>, <<>>, <<>>), Piece("space", LF, <<>>, <<>>) }

\* a SEARCH marker with no separator, and one with a separator and no close
PartialPieces ==
    { Piece("partial", <<SEARCH_MARKER, NL, "z", NL>>, <<>>, <<>>),
      Piece("partial", <<SEARCH_MARKER, NL, "z", NL, SEPARATOR_MARKER, NL, "y", NL>>,
            <<>>, <<>>) }

\* marker lines with nothing between them: the separator line directly after the
\* SEARCH line, and the REPLACE line directly after the separator line
TightPieces ==
    { Piece("tight", <<SEARCH_MARKER, NL, SEPARATOR_MARKER, NL, "a", NL, REPLACE_MARKER>>,
            <<>>, <<"a">>),
      Piece("tight", <<SEARCH_MARKER, NL, "a", NL, SEPARATOR_MARKER, NL, REPLACE_MARKER>>,
            <<"a">>, <<>>) }

\* a character that is no marker and no whitespace
TextPieces == { Piece("text", <<"x">>, <<>>, <<>>) }

Pieces == BlockPieces \cup SpacePieces \cup PartialPieces \cup TightPieces \cup TextPieces

PieceSeqs == UNION { [1..n -> Pieces] : n \in 0..MaxPieces }

RECURSIVE Flatten(_)
Flatten(pieces) ==
    IF pieces = <<>> THEN <<>> ELSE Head(pieces).text \o Flatten(Tail(pieces))

ParserInit ==
    /\ fs = InitialFiles
    /\ defaultFilesystemPath = NULL
    /\ call = [c \in Calls |-> IdleCall]
    /\ tool = NoTool
    /\ mcp = NoClients
    /\ \E pieces \in PieceSeqs :
           parser = [IdleParser EXCEPT !.pieces = pieces,
                                       !.diffContent = Flatten(pieces)]

\* parseDiff(diffContent, context)
ParseDiff ==
    /\ parser.pc = "idle"
    /\ LET blocks == parseDiff(parser.diffContent)
       IN  parser' = [parser EXCEPT !.pc = "done",
                                    !.blocks = blocks,
                                    !.matches = ExecFrom(parser.diffContent, 1),
                                    !.warned = ShouldWarn(blocks, parser.diffContent)]
    /\ UNCHANGED <<fs, defaultFilesystemPath, call, tool, mcp>>

ParserNext == ParseDiff

ParserSpec == ParserInit /\ [][ParserNext]_vars

----------------------------------------------------------------------------
(* The MCP client module: connectMcpClient, disconnectMcpClient and the *)
(* handlers of a client and its transport                               *)

\* connectedClients.has(serverName)
NeverHas(serverName) == FALSE
Has(serverName) == mcp.connectedClients[serverName] # NoClient

\* the calls are numbered in the order they are made
NextConnect(c) ==
    /\ mcp.connect[c].pc = "idle"
    /\ \A b \in Connects : b < c => mcp.connect[b].pc # "idle"

NextDisconnect(d) ==
    /\ mcp.disconnect[d].pc = "idle"
    /\ \A b \in Disconnects : b < d => mcp.disconnect[b].pc # "idle"

\* connectMcpClient(serverName) up to `await client.connect(transport)`;
\* noTransport: getClientTransport throws
ConnectMcpClient(c, serverName, noTransport) ==
    /\ NextConnect(c)
    /\ LET rec == [IdleConnect EXCEPT !.serverName = serverName,
                                      !.cached = mcp.connectedClients[serverName]]
       IN  IF Has(serverName)
           THEN mcp' = [mcp EXCEPT !.connect[c] =
                           [rec EXCEPT !.pc = "done",
                                       !.returned = mcp.connectedClients[serverName]]]
           ELSE IF noTransport
           THEN mcp' = [mcp EXCEPT !.connect[c] =
                           [rec EXCEPT !.pc = "done",
                                       !.error = McpError(INTERNAL_ERROR, "transport")]]
           ELSE mcp' = [mcp EXCEPT !.clients = Append(@, NewClient(serverName)),
                                   !.connect[c] =
                                       [rec EXCEPT !.pc = "connecting",
                                                   !.client = Len(mcp.clients) + 1]]
    /\ UNCHANGED <<fs, defaultFilesystemPath, call, parser, tool>>

\* `await client.connect(transport)` settles: the client is stored and returned,
\* or the error is rethrown by ErrorHandler.tryCatch
ConnectSettled(c, ok) ==
    /\ mcp.connect[c].pc = "connecting"
    /\ LET rec == mcp.connect[c]
       IN  IF ok
           THEN mcp' = [mcp EXCEPT !.connectedClients[rec.serverName] = rec.client,
                                   !.clients[rec.client].connected = TRUE,
                                   !.connect[c].pc = "done",
                                   !.connect[c].returned = rec.client]
           ELSE mcp' = [mcp EXCEPT !.connect[c].pc = "done",
                                   !.connect[c].error = McpError(INTERNAL_ERROR, "connect")]
    /\ UNCHANGED <<fs, defaultFilesystemPath, call, parser, tool>>

\* disconnectMcpClient(serverName) up to `await client.close()`, made on the
\* module state m as call d
Disconnecting(m, d, serverName, by) ==
    LET client == m.connectedClients[serverName]
        rec == [IdleDisconnect EXCEPT !.serverName = serverName,
                                      !.by = by,
                                      !.client = client]
    IN  IF client # NoClient
        THEN [m EXCEPT !.clients[client].closeCalls = @ + 1,
                       !.disconnect[d] = [rec EXCEPT !.pc = "closing"]]
        ELSE [m EXCEPT !.disconnect[d] = [rec EXCEPT !.pc = "done"]]

\* an explicit call of disconnectMcpClient(serverName)
DisconnectMcpClient(d, serverName) ==
    /\ NextDisconnect(d)
    /\ mcp' = Disconnecting(mcp, d, serverName, NoClient)
    /\ UNCHANGED <<fs, defaultFilesystemPath, call, parser, tool>>

\* client.onerror, transport.onerror or transport.onclose of client k fires
ClientEvent(d, k) ==
    /\ NextDisconnect(d)
    /\ k \in 1..Len(mcp.clients)
    /\ mcp' = Disconnecting(mcp, d, mcp.clients[k].serverName, k)
    /\ UNCHANGED <<fs, defaultFilesystemPath, call, parser, tool>>

\* what `finally` leaves in the cache for serverName
DeleteOnlyWhenClosed(cached, ok) == IF ok THEN NoClient ELSE cached
DeleteFromCache(cached, ok) == NoClient

\* `await client.close()` settles: catch logs, finally deletes serverName
DisconnectSettled(d, ok) ==
    /\ mcp.disconnect[d].pc = "closing"
    /\ LET rec == mcp.disconnect[d]
           cached == mcp.connectedClients[rec.serverName]
           left == DeleteFromCache(cached, ok)
       IN  mcp' = [mcp EXCEPT !.connectedClients[rec.serverName] = left,
                              !.disconnect[d].pc = "done",
                              !.disconnect[d].closeFailed = ~ok,
                              !.disconnect[d].evicted =
                                  IF left = NoClient THEN cached ELSE NoClient]
    /\ UNCHANGED <<fs, defaultFilesystemPath, call, parser, tool>>

\* the loop of disconnectAllMcpClients over the names from position i on,
\* each call taking the next number
RECURSIVE DisconnectingFrom(_, _, _)
DisconnectingFrom(m, i, d) ==
    IF i > Len(ServerNameSeq) THEN m
    ELSE IF m.connectedClients[ServerNameSeq[i]] = NoClient
         THEN DisconnectingFrom(m, i + 1, d)
         ELSE DisconnectingFrom(Disconnecting(m, d, ServerNameSeq[i], NoClient), i + 1, d + 1)

\* disconnectAllMcpClients(): disconnectMcpClient for every name in the cache
DisconnectAllMcpClients(d) ==
    /\ NextDisconnect(d)
    /\ LET names == { s \in ServerNames : Has(s) }
       IN  /\ names # {}
           /\ d + Cardinality(names) - 1 <= MaxDisconnects
    /\ mcp' = DisconnectingFrom(mcp, 1, d)
    /\ UNCHANGED <<fs, defaultFilesystemPath, call, parser, tool>>

ClientNext ==
    \/ \E c \in Connects, s \in ServerNames, noTransport \in BOOLEAN :
           ConnectMcpClient(c, s, noTransport)
    \/ \E c \in Connects, ok \in BOOLEAN : ConnectSettled(c, ok)
    \/ \E d \in Disconnects, s \in ServerNames : DisconnectMcpClient(d, s)
    \/ \E d \in Disconnects, k \in 1..MaxConnects : ClientEvent(d, k)
    \/ \E d \in Disconnects, ok \in BOOLEAN : DisconnectSettled(d, ok)
    \/ \E d \in Disconnects : DisconnectAllMcpClients(d)

ClientSpec == Init /\ [][ClientNext]_vars

----------------------------------------------------------------------------
(* Vocabulary of the properties *)

\* call c went through `step`
Did(c, step) == \E i \in 1..Len(call[c].steps) : call[c].steps[i] = step

\* how many times call c went through `step`
Times(c, step) == Cardinality({ i \in 1..Len(call[c].steps) : call[c].steps[i] = step })

\* the working buffer block k of call c was tried on
BufferBefore(c, k) == IF k = 1 THEN call[c].currentContent ELSE call[c].buffers[k - 1]

\* the (1-based) positions at which s occurs in text
Occurrences(text, s) ==
    { i \in 1..(Len(text) + 1) :
        /\ i + Len(s) - 1 <= Len(text)
        /\ \A j \in 1..Len(s) : text[i + j - 1] = s[j] }

\* text with the occurrence of s at position i replaced by r, the rest as it was
ReplaceAt(text, s, r, i) ==
    [j \in 1..(Len(text) - Len(s) + Len(r)) |->
        IF j < i THEN text[j]
        ELSE IF j < i + Len(r) THEN r[j - i + 1]
        ELSE text[j - Len(r) + Len(s)]]

\* the positions at which block k of call c occurred in the buffer it was tried on
BlockOccurrences(c, k) == Occurrences(BufferBefore(c, k), call[c].diffBlocks[k].search)

\* the input of parseDiff is assembled from pieces of these kinds only
MadeOf(kinds) == \A i \in 1..Len(parser.pieces) : parser.pieces[i].kind \in kinds

\* the blocks the pieces of these kinds were written from, in the order of the text
RECURSIVE Written(_, _)
Written(pieces, kinds) ==
    IF pieces = <<>> THEN <<>>
    ELSE (IF Head(pieces).kind \in kinds
          THEN <<[search |-> Head(pieces).search, replace |-> Head(pieces).replace,
                  applied |-> FALSE]>>
          ELSE <<>>) \o Written(Tail(pieces), kinds)

\* the part of the input that match k of parseDiff spans
Segment(k) ==
    SubSeq(parser.diffContent, parser.matches[k].index, parser.matches[k].lastIndex - 1)

LineBreaks == { LF, CRLF }

\* a search text and a replace text between the three markers, each marker with
\* a line break of its own on the side of the text
Delimited(search, replace) ==
    { <<SEARCH_MARKER>> \o n1 \o search \o n2 \o <<SEPARATOR_MARKER>> \o n3
          \o replace \o n4 \o <<REPLACE_MARKER>> :
      n1 \in LineBreaks, n2 \in LineBreaks, n3 \in LineBreaks, n4 \in LineBreaks }

\* every piece after a piece of marker lines with nothing between them is whitespace
TightLast ==
    \A i \in 1..Len(parser.pieces) : parser.pieces[i].kind = "tight" =>
        \A j \in (i + 1)..Len(parser.pieces) : parser.pieces[j].kind = "space"

\* path is root or lies below it
IsWithin(path, root) ==
    /\ path.abs = root.abs
    /\ Len(path.segs) >= Len(root.segs)
    /\ SubSeq(path.segs, 1, Len(root.segs)) = root.segs

\* text with every occurrence of s, taken left to right, replaced by r
RECURSIVE ReplaceEvery(_, _, _)
ReplaceEvery(text, s, r) ==
    LET index == IndexOf(text, s)
    IN  IF s = <<>> \/ index = -1 THEN text
        ELSE Substring(text, 0, index) \o r
                 \o ReplaceEvery(Substring(text, index + Len(s), Len(text)), s, r)

\* text after every block was tried on it in turn: a block whose search text
\* occurs replaces its leftmost occurrence, any other block leaves the text
RECURSIVE EveryBlockApplied(_, _)
EveryBlockApplied(text, blocks) ==
    IF blocks = <<>> THEN text
    ELSE LET b == Head(blocks)
             at == Occurrences(text, b.search)
         IN  EveryBlockApplied(IF at = {} THEN text
                               ELSE ReplaceAt(text, b.search, b.replace, Min(at)),
                               Tail(blocks))

----------------------------------------------------------------------------
(* Properties *)

\* C1: within one call the blocks are applied in the order they were parsed, and
\* block k is searched in, and replaced in, the working buffer left by blocks
\* 1..k-1 (the text read only for k = 1); [a -> b, b -> c] on "a" gives "c" with
\* blocksApplied = 2.
C1_BlocksApplyInOrderOnWorkingBuffer ==
    \A c \in Calls : Did(c, "apply") =>
        LET rec == call[c] IN
        /\ Len(rec.buffers) = Len(rec.diffBlocks)
        /\ rec.updatedContent = rec.buffers[Len(rec.buffers)]
        /\ \A k \in 1..Len(rec.diffBlocks) :
              IF BlockOccurrences(c, k) = {}
              THEN rec.buffers[k] = BufferBefore(c, k)
              ELSE \E i \in BlockOccurrences(c, k) :
                      rec.buffers[k] = ReplaceAt(BufferBefore(c, k),
                                                 rec.diffBlocks[k].search,
                                                 rec.diffBlocks[k].replace, i)
        /\ (rec.diff = DiffChain /\ rec.currentContent = <<"a">>) =>
              (rec.updatedContent = <<"c">> /\ rec.blocksApplied = 2)

\* a call applied [a -> b, b -> c] to "a": the second block matched only the
\* first block's output
C1_Witness ==
    \E c \in Calls :
        /\ Did(c, "apply")
        /\ call[c].diff = DiffChain
        /\ call[c].currentContent = <<"a">>
        /\ call[c].buffers = << <<"b">>, <<"c">> >>
        /\ call[c].blocksApplied = 2

\* C2: a block whose search text occurs in the working buffer replaces the
\* leftmost occurrence and nothing else: every other character, later
\* occurrences included, stays as it was.
C2_FirstOccurrenceOnly ==
    \A c \in Calls : Did(c, "apply") =>
        \A k \in 1..Len(call[c].diffBlocks) :
            BlockOccurrences(c, k) # {} =>
                /\ call[c].diffBlocks[k].applied
                /\ call[c].buffers[k] =
                       ReplaceAt(BufferBefore(c, k), call[c].diffBlocks[k].search,
                                 call[c].diffBlocks[k].replace,
                                 Min(BlockOccurrences(c, k)))

\* a -> b was applied to "aa", where a occurs twice, and left "ba"
C2_Witness ==
    \E c \in Calls :
        /\ Did(c, "apply")
        /\ call[c].currentContent = <<"a", "a">>
        /\ call[c].diffBlocks[1].search = <<"a">>
        /\ Cardinality(BlockOccurrences(c, 1)) = 2
        /\ call[c].buffers[1] = <<"b", "a">>

\* C3: a block whose search text does not occur in the working buffer leaves the
\* buffer as it was and counts one in blocksFailed; the blocks after it are still
\* tried; the miss is not an error: a call with misses resolves, unless its own
\* write was rejected by the file system.
C3_MissIsSoftFailure ==
    \A c \in Calls : Did(c, "apply") =>
        LET rec == call[c]
            misses == { k \in 1..Len(rec.diffBlocks) : BlockOccurrences(c, k) = {} }
        IN  /\ Len(rec.buffers) = Len(rec.diffBlocks)
            /\ \A k \in misses :
                  /\ rec.buffers[k] = BufferBefore(c, k)
                  /\ ~rec.diffBlocks[k].applied
            /\ rec.blocksFailed = Cardinality(misses)
            /\ (rec.pc = "done" /\ misses # {}) =>
                  \/ rec.returned /\ rec.error = NoErr
                     /\ rec.result.blocksFailed = Cardinality(misses)
                  \/ ~rec.returned /\ rec.raisedAt = "write" /\ rec.ioError # NoErr

\* a call whose first block missed and whose second block was applied resolved
C3_Witness ==
    \E c \in Calls :
        /\ call[c].pc = "done"
        /\ call[c].returned
        /\ Len(call[c].diffBlocks) = 2
        /\ BlockOccurrences(c, 1) = {}
        /\ call[c].buffers[1] = call[c].currentContent
        /\ call[c].diffBlocks[2].applied
        /\ call[c].result.blocksFailed = 1
        /\ call[c].result.blocksApplied = 1

\* C4: a call that applied at least one block issues fs.writeFile exactly once;
\* when the write succeeds the file then holds the whole final working buffer
\* and nothing else, and the call resolves with its own applied and failed
\* counts; the one other outcome is the rejection of that write (C8).
C4_AppliedBlocksAreWrittenOnce ==
    \A c \in Calls : (call[c].pc = "done" /\ call[c].blocksApplied > 0) =>
        LET rec == call[c] IN
        /\ Times(c, "write") = 1
        /\ rec.returned =>
              /\ rec.written = <<rec.updatedContent>>
              /\ rec.result = [updatedPath |-> rec.absolutePath,
                               blocksApplied |-> rec.blocksApplied,
                               blocksFailed |-> rec.blocksFailed]
        /\ ~rec.returned => (rec.written = <<>> /\ rec.raisedAt = "write")

\* a call with one applied and one failed block wrote its buffer, and the file
\* holds it
C4_Witness ==
    \E c \in Calls :
        /\ call[c].pc = "done"
        /\ call[c].returned
        /\ call[c].result.blocksApplied = 1
        /\ call[c].result.blocksFailed = 1
        /\ call[c].written = <<call[c].updatedContent>>
        /\ call[c].updatedContent # call[c].currentContent
        /\ fs[call[c].absolutePath] = File(call[c].updatedContent)

\* C5: a call that parsed one or more blocks and applied none issues no write
\* and resolves with zero applied and all its blocks failed.
C5_NoWriteWhenNothingApplied ==
    \A c \in Calls :
        (/\ call[c].pc = "done"
         /\ Did(c, "parse")
         /\ Len(call[c].diffBlocks) >= 1
         /\ call[c].blocksApplied = 0) =>
            /\ ~Did(c, "write")
            /\ call[c].written = <<>>
            /\ ~call[c].created
            /\ call[c].returned
            /\ call[c].result.blocksApplied = 0
            /\ call[c].result.blocksFailed = Len(call[c].diffBlocks)

\* [c -> a, aa -> b] missed twice on "a": the call resolved with (0, 2) and the
\* file is as read
C5_Witness ==
    \E c \in Calls :
        /\ call[c].pc = "done"
        /\ call[c].diff = DiffMissThenHit
        /\ call[c].currentContent = <<"a">>
        /\ call[c].returned
        /\ call[c].result.blocksApplied = 0
        /\ call[c].result.blocksFailed = 2
        /\ call[c].steps = <<"resolve", "read", "parse", "apply">>
        /\ fs[call[c].absolutePath] = File(call[c].currentContent)

\* C6: a call whose diff holds no block, on a file that was read, resolves with
\* (0, 0) without entering the loop and without a write.
C6_NoBlocksIsNoOp ==
    \A c \in Calls :
        (/\ call[c].pc = "done"
         /\ Did(c, "parse")
         /\ call[c].diffBlocks = <<>>) =>
            /\ call[c].returned
            /\ call[c].error = NoErr
            /\ call[c].result.blocksApplied = 0
            /\ call[c].result.blocksFailed = 0
            /\ ~Did(c, "apply")
            /\ ~Did(c, "write")
            /\ call[c].written = <<>>

\* a call given text without a block resolved after resolve, read and parse
C6_Witness ==
    \E c \in Calls :
        /\ call[c].pc = "done"
        /\ call[c].diff = DiffNoBlocks
        /\ call[c].returned
        /\ call[c].steps = <<"resolve", "read", "parse">>
        /\ fs[call[c].absolutePath] = File(call[c].currentContent)

\* C7: a call whose read finds no file fails with NOT_FOUND without a write, and
\* no call ever writes to a path at which no file exists when it writes.
C7_NeverCreatesAFile ==
    \A c \in Calls :
        /\ (call[c].raisedAt = "read" /\ call[c].ioError.code = "ENOENT") =>
              /\ call[c].error.code = NOT_FOUND
              /\ ~Did(c, "write")
        /\ ~call[c].created

\* C8: an error of fs.readFile other than ENOENT, and any error of fs.writeFile,
\* rejects the call with INTERNAL_ERROR carrying the original error.
C8_IoErrorsSurfaceAsInternalError ==
    \A c \in Calls :
        (/\ call[c].pc = "done"
         /\ call[c].ioError # NoErr
         /\ ~(call[c].raisedAt = "read" /\ call[c].ioError.code = "ENOENT")) =>
            /\ ~call[c].returned
            /\ call[c].error = McpError(INTERNAL_ERROR, call[c].ioError.code)

\* one call's read was refused (EACCES) and another call's write met ENOENT:
\* both were rejected with INTERNAL_ERROR
C8_Witness ==
    \E c, d \in Calls :
        /\ call[c].raisedAt = "read"
        /\ call[c].ioError = PlainError("EACCES")
        /\ call[c].error = McpError(INTERNAL_ERROR, "EACCES")
        /\ call[d].raisedAt = "write"
        /\ call[d].ioError = PlainError("ENOENT")
        /\ call[d].error = McpError(INTERNAL_ERROR, "ENOENT")

\* C9: a call given a relative path while no default path is set is rejected
\* with VALIDATION_ERROR in its first step: it never reads, never writes, and
\* the file system is as it was.
C9_RelativePathWithoutDefaultFailsBeforeIO ==
    [][\A c \in Calls :
          (/\ call[c].pc = "idle"
           /\ call'[c].pc # "idle"
           /\ ~PathIsAbsolute(call'[c].requestedPath)
           /\ defaultFilesystemPath = NULL) =>
              /\ call'[c].pc = "done"
              /\ ~call'[c].returned
              /\ call'[c].error = McpError(VALIDATION_ERROR, "none")
              /\ call'[c].steps = <<"resolve">>
              /\ call'[c].written = <<>>
              /\ fs' = fs]_vars

\* a call given the relative path f with no default set was rejected
C9_Witness ==
    \E c \in Calls :
        /\ defaultFilesystemPath = NULL
        /\ call[c].pc = "done"
        /\ call[c].requestedPath = RelPath(<<"f">>)
        /\ call[c].error = McpError(VALIDATION_ERROR, "none")
        /\ call[c].steps = <<"resolve">>

\* C10: a call that fails is rejected with an McpError tagged NOT_FOUND,
\* VALIDATION_ERROR or INTERNAL_ERROR, and an McpError thrown inside the call
\* is the error the caller gets: the outer catch does not rewrap it.
C10_FailuresKeepTheirTag ==
    \A c \in Calls : call[c].pc = "done" =>
        /\ call[c].returned <=> call[c].error = NoErr
        /\ ~call[c].returned =>
              /\ call[c].error.isMcp
              /\ call[c].error.code \in {NOT_FOUND, VALIDATION_ERROR, INTERNAL_ERROR}
        /\ call[c].thrown.isMcp => call[c].error = call[c].thrown
        /\ (call[c].raisedAt = "read" /\ call[c].ioError.code = "ENOENT") =>
              call[c].error.code = NOT_FOUND

\* a NOT_FOUND thrown by the read catch went through the outer catch, and a
\* VALIDATION_ERROR thrown by resolvePath reached the caller
C10_Witness ==
    \E c, d \in Calls :
        /\ call[c].raisedAt = "read"
        /\ call[c].thrown = McpError(NOT_FOUND, "ENOENT")
        /\ call[c].error.code = NOT_FOUND
        /\ call[d].raisedAt = "resolve"
        /\ call[d].error.code = VALIDATION_ERROR

\* C11: concurrent calls are not coordinated.  A call's write is never refused
\* because the file changed after the call read it: once the write is issued,
\* either the file system rejects it or the file holds that call's buffer,
\* computed from the text the call read, and the call resolves.  A file holds
\* what it held at the start or the buffer of one of the calls that wrote to
\* it, never a merge; so two calls that read the same text and both write lose
\* the first writer's change (C11_Witness).
C11_ConcurrentCallsAreNotCoordinated ==
    /\ \A c \in Calls : (call[c].pc = "done" /\ Did(c, "write")) =>
           \/ /\ call[c].returned
              /\ call[c].written = <<call[c].updatedContent>>
              /\ call[c].result.blocksApplied > 0
           \/ /\ ~call[c].returned
              /\ call[c].raisedAt = "write"
              /\ call[c].ioError # NoErr
    /\ \A p \in Files : fs[p].exists =>
           \/ fs[p] = InitialFiles[p]
           \/ \E c \in Calls : /\ call[c].absolutePath = p
                                /\ call[c].written = <<fs[p].content>>

\* the lost update: two calls read the same text of the same file, both applied
\* a block, both wrote and both resolved with blocksApplied > 0; the file holds
\* the second writer's buffer and the first writer's change is gone
C11_Witness ==
    \E c, d \in Calls :
        /\ c # d
        /\ call[c].absolutePath = call[d].absolutePath
        /\ call[c].currentContent = FileAt(InitialFiles, call[c].absolutePath).content
        /\ call[d].currentContent = call[c].currentContent
        /\ call[c].returned /\ call[c].result.blocksApplied > 0
        /\ call[d].returned /\ call[d].result.blocksApplied > 0
        /\ call[c].written = << <<"c", "a">> >>
        /\ call[d].written = << <<"b">> >>
        /\ FileAt(fs, call[d].absolutePath) = File(<<"b">>)

\* C12: a diff text made of N blocks written as the input schema describes
\* them (with LF or CRLF line breaks, texts that may be empty or span lines),
\* with whitespace or nothing between them, parses to exactly those N blocks,
\* in order, each with its search and replace text as written and applied = FALSE.
C12_ParsingRoundTrip ==
    (parser.pc = "done" /\ MadeOf({"block", "space"})) =>
        parser.blocks = Written(parser.pieces, {"block"})

\* two different blocks with whitespace between them were parsed back: one has
\* a two-line search text and an empty replace text
C12_Witness ==
    /\ parser.pc = "done"
    /\ Len(parser.pieces) = 3
    /\ parser.pieces[1] = BlockPiece(<<"a", NL, "b">>, <<>>, CRLF)
    /\ parser.pieces[2].kind = "space"
    /\ parser.pieces[3] = BlockPiece(<<"a">>, <<"b">>, LF)
    /\ parser.blocks = <<[search |-> <<"a", NL, "b">>, replace |-> <<>>, applied |-> FALSE],
                         [search |-> <<"a">>, replace |-> <<"b">>, applied |-> FALSE]>>

C14_MarkersAreLineAnchored ==
    parser.pc = "done" =>
        \A k \in 1..Len(parser.matches) :
            LET m == parser.matches[k]
                t == parser.diffContent
            IN  /\ m.index = 1 \/ t[m.index - 1] = NL
                /\ m.lastIndex > Len(t) \/ NewlineLen(t, m.lastIndex) > 0

\* C15: marker groups that do not form the whole pattern give no block and
\* raise no error: with a SEARCH marker that has no separator or no close
\* placed before, between or after well-formed blocks, parseDiff returns the
\* well-formed blocks, as many and with the texts they were written with, and
\* the blocks returned do not overlap in the input.
C15_PartialGroupsAreSkipped ==
    parser.pc = "done" =>
        /\ parser.error = NoErr
        /\ \A k \in 1..(Len(parser.matches) - 1) :
               parser.matches[k].lastIndex <= parser.matches[k + 1].index
        /\ MadeOf({"block", "space", "partial"}) =>
               parser.blocks = Written(parser.pieces, {"block"})

C17_OperationsStayInBaseDirectory ==
    \A c \in Calls :
        /\ call[c].absolutePath # NULL => IsWithin(call[c].absolutePath, fsBaseDirectory)
        /\ call[c].written # <<>> => IsWithin(call[c].absolutePath, fsBaseDirectory)
        /\ (call[c].pc = "done" /\ PathIsAbsolute(call[c].requestedPath)
              /\ ~IsWithin(PathNormalize(call[c].requestedPath), fsBaseDirectory)) =>
                 (~call[c].returned /\ call[c].error.code = VALIDATION_ERROR
                    /\ ~Did(c, "read"))

\* C18: the default path is unset when the server starts.  A successful
\* set_filesystem_default with absolute path D leaves the default at D
\* (normalized), whatever it was before, and the default changes only by a set
\* or a clear.  update_file resolves a relative path p to the default it finds
\* at that moment joined with p, and an absolute path to its own normal form,
\* whatever the default is.
C18_RelativePathsResolveAgainstLatestDefault ==
    /\ defaultFilesystemPath = NULL
    /\ [][/\ (tool' # tool /\ tool'.name = "set_filesystem_default"
                 /\ tool'.error = NoErr) =>
                (/\ PathIsAbsolute(tool'.path)
                 /\ defaultFilesystemPath' = PathNormalize(tool'.path))
          /\ defaultFilesystemPath' # defaultFilesystemPath =>
                (/\ tool' # tool
                 /\ tool'.name \in {"set_filesystem_default", "clear_default"}
                 /\ tool'.name = "clear_default" => defaultFilesystemPath' = NULL)
          /\ \A c \in Calls :
                (call[c].pc = "idle" /\ call'[c].pc = "reading") =>
                    LET p == call'[c].requestedPath IN
                    /\ defaultFilesystemPath' = defaultFilesystemPath
                    /\ PathIsAbsolute(p) => call'[c].absolutePath = PathNormalize(p)
                    /\ ~PathIsAbsolute(p) =>
                          /\ defaultFilesystemPath # NULL
                          /\ call'[c].absolutePath =
                                 PathNormalize(AbsPath(defaultFilesystemPath.segs \o p.segs))
         ]_vars

\* the default was /d and was set again, to /e; a call then resolved the
\* relative path f to /e/f
C18_Witness ==
    /\ tool.name = "set_filesystem_default"
    /\ tool.error = NoErr
    /\ tool.default = DirPath
    /\ defaultFilesystemPath = AbsPath(<<"e">>)
    /\ \E c \in Calls :
           /\ call[c].pc = "reading"
           /\ call[c].requestedPath = RelPath(<<"f">>)
           /\ call[c].absolutePath = AbsPath(<<"e", "f">>)

\* C19: read_file resolves a relative path as update_file does: against the
\* session default path.  With no default set it is rejected with
\* VALIDATION_ERROR; with a default set, the file it reads is the one at the
\* default joined with the path, which is where an update_file call started in
\* the same session state acts.
C19_ReadFileResolvesLikeUpdateFile ==
    (tool.name = "read_file" /\ ~PathIsAbsolute(tool.path)) =>
        LET r == ResolvePath(tool.default, tool.path, FALSE) IN
        /\ tool.default = NULL => tool.error = McpError(VALIDATION_ERROR, "none")
        /\ (tool.default # NULL /\ tool.resolved # NULL) => tool.resolved = r.path
        /\ \A c \in Calls :
              (/\ call[c].pc = "reading"
               /\ call[c].requestedPath = tool.path
               /\ tool.default = defaultFilesystemPath
               /\ call[c].absolutePath = r.path
               /\ tool.resolved # NULL) => tool.resolved = call[c].absolutePath

\* C20: when the caller asks for replaceAll: true, a block whose search text
\* occurs in the working buffer replaces every occurrence of it.
C20_ReplaceAllReplacesEveryOccurrence ==
    \A c \in Calls : (Did(c, "apply") /\ call[c].replaceAll) =>
        \A k \in 1..Len(call[c].diffBlocks) :
            call[c].buffers[k] = ReplaceEvery(BufferBefore(c, k),
                                              call[c].diffBlocks[k].search,
                                              call[c].diffBlocks[k].replace)

\* C21: a call of connectMcpClient(serverName) made while the cache holds a
\* client for serverName resolves at once to that very instance, and neither
\* creates an instance nor touches the cache.
C21_CachedClientIsReturned ==
    [][\A c \in Connects :
          LET before == mcp.connect[c]
              after == mcp'.connect[c]
          IN  (/\ before.pc = "idle"
               /\ after.pc # "idle"
               /\ mcp.connectedClients[after.serverName] # NoClient)
              => /\ after.pc = "done"
                 /\ after.error = NoErr
                 /\ after.returned = mcp.connectedClients[after.serverName]
                 /\ mcp'.clients = mcp.clients
                 /\ mcp'.connectedClients = mcp.connectedClients]_vars

\* a second call for a connected server got the first call's instance
C21_Witness ==
    \E b, c \in Connects :
        /\ b < c
        /\ mcp.connect[b].pc = "done" /\ mcp.connect[b].returned # NoClient
        /\ mcp.connect[c].pc = "done"
        /\ mcp.connect[c].cached = mcp.connect[b].returned
        /\ mcp.connect[c].returned = mcp.connect[b].returned
        /\ mcp.connect[c].client = NoClient
        /\ Len(mcp.clients) = 1

\* C22: at the step in which a call of disconnectMcpClient(serverName)
\* completes, the cache holds nothing for serverName, whether client.close()
\* resolved or rejected (or there was nothing to close), and the call does not
\* reject.
C22_DisconnectAlwaysEvicts ==
    [][\A d \in Disconnects :
          (mcp.disconnect[d].pc # "done" /\ mcp'.disconnect[d].pc = "done")
          => /\ mcp'.connectedClients[mcp'.disconnect[d].serverName] = NoClient
             /\ ~mcp'.disconnect[d].rejected]_vars

\* a call whose client.close() rejected completed, and the cache is empty
C22_Witness ==
    \E d \in Disconnects :
        /\ mcp.disconnect[d].pc = "done"
        /\ mcp.disconnect[d].client # NoClient
        /\ mcp.disconnect[d].closeFailed
        /\ ~mcp.disconnect[d].rejected
        /\ mcp.disconnect[d].evicted = mcp.disconnect[d].client
        /\ mcp.connectedClients[mcp.disconnect[d].serverName] = NoClient

\* C23: a call reads its file at most once and writes it at most once, the
\* read before the write, and nothing is tried again: a read or a write that
\* fails is the last step of the call, which rejects.
C23_OneReadThenOneWrite ==
    \A c \in Calls :
        LET steps == call[c].steps IN
        /\ Times(c, "read") <= 1
        /\ Times(c, "write") <= 1
        /\ \A i, j \in 1..Len(steps) :
              (steps[i] = "read" /\ steps[j] = "write") => i < j
        /\ Did(c, "write") => Did(c, "read")
        /\ Len(call[c].written) <= Times(c, "write")
        /\ call[c].raisedAt \in {"read", "write"} =>
              /\ call[c].pc = "done"
              /\ steps[Len(steps)] = call[c].raisedAt
              /\ call[c].error # NoErr
              /\ ~call[c].returned
              /\ call[c].written = <<>>

\* a call whose write failed ended there, after one read and one write
C23_Witness ==
    \E c \in Calls :
        /\ call[c].raisedAt = "write"
        /\ call[c].steps = <<"resolve", "read", "parse", "apply", "write">>
        /\ call[c].error = McpError(INTERNAL_ERROR, "ENOENT")

\* C24: parsing and applying the blocks is one step of a call; other calls see
\* it only before its read or with its whole result.  The step that completes
\* the read takes the file's content and computes, from it alone, the result of
\* all the call's blocks in order; a call waiting to write holds that result,
\* which no other call's step changes; and the write stores exactly it, in the
\* call's file only.
C24_WritesAreWholeAndOwn ==
    [][\A c \in Calls :
          LET before == call[c]
              after == call'[c]
              whole(rec) == EveryBlockApplied(rec.currentContent, rec.diffBlocks)
          IN  /\ (before.pc = "reading" /\ after.pc # "reading" /\ after.raisedAt = "none")
                 => /\ after.currentContent = FileAt(fs, before.absolutePath).content
                    /\ after.updatedContent = whole(after)
                    /\ Len(after.buffers) = Len(after.diffBlocks)
                    /\ fs' = fs
              /\ before.pc = "writing"
                 => /\ before.updatedContent = whole(before)
                    /\ after.currentContent = before.currentContent
                    /\ after.diffBlocks = before.diffBlocks
                    /\ after.updatedContent = before.updatedContent
              /\ (before.pc = "writing" /\ after.returned)
                 => /\ after.written = <<whole(before)>>
                    /\ FileAt(fs', before.absolutePath).content = whole(before)
                    /\ \A p \in Files : p # before.absolutePath => fs'[p] = fs[p]]_vars

\* a call wrote the result of both its blocks on what it had read, after
\* another call had changed the file in between
C24_Witness ==
    \E c, d \in Calls :
        /\ c # d
        /\ call[c].returned /\ call[d].returned
        /\ call[c].absolutePath = call[d].absolutePath
        /\ call[d].currentContent = <<"a", "a">>
        /\ call[d].diff = DiffChain
        /\ call[d].written = <<EveryBlockApplied(<<"a", "a">>, call[d].diffBlocks)>>
        /\ call[c].written # <<>>
        /\ call[c].written # call[d].written
        /\ FileAt(fs, call[d].absolutePath).content = call[d].written[1]
        /\ ApplyBlocks(call[c].written[1], call[d].diffBlocks).updatedContent
               # call[d].written[1]

\* C25: every block parseDiff returns for a non-empty diff has a non-empty
\* search text, and a block with an empty search text is not applied: applied
\* to a file's content it counts as no applied block and leaves the content as
\* it is, so that no replacement text is put at the start of the file.
C25_NoBlockHasEmptySearch ==
    (parser.pc = "done" /\ parser.diffContent # <<>>) =>
        \A k \in 1..Len(parser.blocks) :
            /\ parser.blocks[k].search # <<>>
            /\ \A p \in Files :
                  LET content == InitialFiles[p].content
                      st == ApplyBlocks(content, <<parser.blocks[k]>>)
                  IN  parser.blocks[k].search = <<>> =>
                          /\ st.blocksApplied = 0
                          /\ st.updatedContent = content

\* C26: setDefaultFilesystemPath given a path that is not absolute, or one the
\* sanitizer rejects, fails; and whenever it fails it fails with an McpError
\* tagged VALIDATION_ERROR and the stored default is what it was before the
\* call.
C26_FailedSetLeavesDefault ==
    [][(tool' # tool /\ tool'.name = "set_filesystem_default") =>
          LET newPath == tool'.path
              failed == tool'.error # NoErr
          IN  /\ ~PathIsAbsolute(newPath) => failed
              /\ (\E i \in 1..Len(newPath.segs) : newPath.segs[i] = BAD_SEGMENT) => failed
              /\ failed => /\ tool'.error.isMcp
                           /\ tool'.error.code = VALIDATION_ERROR
                           /\ defaultFilesystemPath' = defaultFilesystemPath]_vars

\* a relative path was refused while a default was set, and the default is kept
C26_Witness ==
    /\ tool.name = "set_filesystem_default"
    /\ ~PathIsAbsolute(tool.path)
    /\ tool.error = McpError(VALIDATION_ERROR, "none")
    /\ tool.default = DirPath
    /\ defaultFilesystemPath = DirPath

\* C27: in the result of every call that resolves, blocksApplied and
\* blocksFailed are non-negative and add up to the number of blocks parsed
\* from the call's diff, and blocksApplied is the number of blocks marked
\* applied.
C27_CountsAddUp ==
    \A c \in Calls : call[c].returned =>
        LET result == call[c].result
            diffBlocks == call[c].diffBlocks
            marked == { k \in 1..Len(diffBlocks) : diffBlocks[k].applied }
        IN  /\ result.blocksApplied >= 0
            /\ result.blocksFailed >= 0
            /\ result.blocksApplied + result.blocksFailed = Len(diffBlocks)
            /\ Cardinality(marked) = result.blocksApplied

\* one call resolved with two blocks applied, another with one applied and one
\* failed
C27_Witness ==
    \E c, d \in Calls :
        /\ call[c].returned /\ call[d].returned
        /\ Len(call[c].diffBlocks) = 2 /\ Len(call[d].diffBlocks) = 2
        /\ call[c].result.blocksApplied = 2 /\ call[c].result.blocksFailed = 0
        /\ call[d].result.blocksApplied = 1 /\ call[d].result.blocksFailed = 1
        /\ call[d].diffBlocks[2].applied /\ ~call[d].diffBlocks[1].applied

\* C28: a call acts on one path.  The path is resolved when the call starts,
\* against the default of that moment, and no later step changes it, whatever
\* happens to the default: the read takes the file at that path, the write
\* stores into the file at that path and no other, a write fails only on an
\* I/O error, and the result reports that path as updatedPath.
C28_OnePathPerCall ==
    [][\A c \in Calls :
          LET before == call[c]
              after == call'[c]
          IN  /\ (before.pc = "idle" /\ after.pc = "reading")
                 => after.absolutePath =
                        ResolvePath(defaultFilesystemPath, after.requestedPath, FALSE).path
              /\ before.pc \in {"reading", "writing"}
                 => /\ after.absolutePath = before.absolutePath
                    /\ after.requestedPath = before.requestedPath
              /\ (before.pc = "reading" /\ Did(c, "parse")')
                 => after.currentContent = FileAt(fs, before.absolutePath).content
              /\ (before.pc = "writing" /\ after.pc = "done")
                 => /\ after.returned \/ after.ioError # NoErr
                    /\ after.returned
                       => /\ after.result.updatedPath = before.absolutePath
                          /\ FileAt(fs', before.absolutePath).content = before.updatedContent
                          /\ \A p \in Files : p # before.absolutePath => fs'[p] = fs[p]
              /\ (before.pc = "reading" /\ after.returned)
                 => after.result.updatedPath = before.absolutePath]_vars

\* a call given a relative path read and wrote the file under the default of
\* its start, and reports it, in a session whose default has been cleared since
C28_Witness ==
    \E c \in Calls :
        /\ call[c].returned
        /\ call[c].requestedPath = RelPath(<<"f">>)
        /\ call[c].absolutePath = NestedFilePath
        /\ call[c].result.updatedPath = NestedFilePath
        /\ call[c].written # <<>>
        /\ defaultFilesystemPath = NULL
        /\ fs[NestedFilePath] = File(call[c].written[1])
        /\ fs[FilePath] = InitialFiles[FilePath]

\* C29: while no disconnect has been asked for, the calls of connectMcpClient
\* for one server name, however interleaved, create and connect at most one
\* client for that name, and every call that resolved holds the instance the
\* cache holds for the name.
C29_ConcurrentConnectsShareOneClient ==
    (\A d \in Disconnects : mcp.disconnect[d].pc = "idle") =>
        \A s \in ServerNames :
            LET connected == { k \in 1..Len(mcp.clients) :
                                   /\ mcp.clients[k].serverName = s
                                   /\ mcp.clients[k].connected }
            IN  /\ Cardinality(connected) <= 1
                /\ \A c \in Connects :
                      (/\ mcp.connect[c].pc = "done"
                       /\ mcp.connect[c].serverName = s
                       /\ mcp.connect[c].returned # NoClient)
                      => mcp.connect[c].returned = mcp.connectedClients[s]

\* C30: a call of disconnectMcpClient made by a handler of client k closes and
\* evicts no client other than k; and when it is made while an earlier call is
\* still closing k, it does not call close() on k again.
C30_EventsTouchOnlyTheirOwnClient ==
    \A d \in Disconnects :
        LET rec == mcp.disconnect[d] IN
        (rec.pc # "idle" /\ rec.by # NoClient) =>
            /\ rec.client \in {NoClient, rec.by}
            /\ rec.evicted \in {NoClient, rec.by}
            /\ \A e \in Disconnects :
                  (/\ e < d
                   /\ mcp.disconnect[e].pc = "closing"
                   /\ mcp.disconnect[e].client = rec.by)
                  => rec.client # rec.by

====
